---- MODULE Spec2Model ----
(***************************************************************************)
(* display7: a platform driver for a seven-segment display wired to GPIO  *)
(* lines, with one sysfs attribute "digit" (src/display7.c).              *)
(*                                                                         *)
(* Characters are their ASCII codes: '0'..'9' = 48..57, 'a'..'f' =        *)
(* 97..102, 'A' = 65, 'z' = 122, '\n' = 10, NUL = 0.                      *)
(***************************************************************************)
EXTENDS Integers, Sequences, FiniteSets

\* ------------------------------------------------------------------ bounds
\* Largest number of gpios of the node when the pin writes may fault.
MaxFaultPins == 3
\* Largest payload length of one write to the attribute file.
MaxLen == 2
\* Largest digit value handed to display7_setled by a direct caller.
MaxDigit == 16

\* Segments of the display, a..g and dp: the width of a segment code.
Segments == 8

\* Platform devices (device-tree nodes compatible with "filhodamain,display7").
Devs == {1, 2}
\* Processes that write to the attribute file at the same time.
Writers == {1, 2}
\* Physical GPIO lines.
Lines == 0 .. (Segments - 1)
\* Numbers of gpios a node lists: all the segments, or the first few.
PinCounts == 1 .. Segments
FaultPinCounts == 1 .. MaxFaultPins

\* First characters of a write: the sixteen accepted ones and some others.
HexChars == (48 .. 57) \cup (97 .. 102)
OtherChars == {0, 10, 65, 122}
Chars == HexChars \cup OtherChars
\* Characters that follow the first one in a longer payload.
TailChars == {10}
Payloads == {<<c>> \o t : c \in Chars,
                          t \in UNION {[1 .. n -> TailChars] : n \in 0 .. (MaxLen - 1)}}

\* errno value of a failed allocation (returned negated).
ENOMEM == 12

\* ------------------------------------------------------------ pure helpers
RECURSIVE Pow2(_)
Pow2(i) == IF i = 0 THEN 1 ELSE 2 * Pow2(i - 1)

\* (mask >> i) & 1
Bit(mask, i) == (mask \div Pow2(i)) % 2

\* Segment codes for digits 0..F, index digit + 1.
\* Variant: segment a missing from the code of F.
segment_table_F == <<63, 6, 91, 79, 102, 109, 125, 7, 127, 111, 119, 124, 57, 94, 121, 112>>
segment_table == <<63, 6, 91, 79, 102, 109, 125, 7, 127, 111, 119, 124, 57, 94, 121, 113>>

\* The switch of digit_store: the digit value shown for a first character,
\* and the character recorded for it.
\* Variant: upper-case hexadecimal letters are accepted too.
StoreDigit_anycase(c) ==
    CASE c \in 48 .. 57 -> c - 48
      [] c \in 97 .. 102 -> c - 97 + 10
      [] c \in 65 .. 70 -> c - 65 + 10
      [] OTHER -> 8
StoreDigit(c) ==
    CASE c = 48 -> 0  [] c = 49 -> 1  [] c = 50 -> 2  [] c = 51 -> 3
      [] c = 52 -> 4  [] c = 53 -> 5  [] c = 54 -> 6  [] c = 55 -> 7
      [] c = 56 -> 8  [] c = 57 -> 9
      [] c = 97 -> 10 [] c = 98 -> 11 [] c = 99 -> 12
      [] c = 100 -> 13 [] c = 101 -> 14 [] c = 102 -> 15
      [] OTHER -> 8
\* Variant: hexadecimal letters are recorded in upper case.
StoreChar_upper(c) == IF c \in 97 .. 102 THEN c - 32 ELSE IF c \in 48 .. 57 THEN c ELSE 56
\* Variant: the default case does not replace the character by '8'.
StoreChar_raw(c) == c
StoreChar(c) == IF c \in HexChars THEN c ELSE 56

\* --------------------------------------------------------------- the state
VARIABLES
    dt,                     \* device tree: dt[d] = the gpios of node d, <<>> if absent
    level,                  \* level[l]: output level of line l
    owner,                  \* owner[l]: device that requested line l, 0 if free
    data,                   \* data[d]: the display7_data_st allocated by d's probe
    display7_data,          \* the global pointer: 0 (NULL) or the device whose data it is
    parent_device,          \* the global pointer set by probe
    display7_class,         \* "NULL", "ok" or "ERR"
    sysfs_display7_device,  \* "NULL", "ok" or "ERR"
    chrdevs,                \* registered device numbers
    classReg,               \* class "display7" exists in /sys/class
    devReg,                 \* device number of the device "user:1" in the class, 0 if none
    fileReg,                \* the attribute file "digit" exists
    pc,                     \* pc[d]: position of d's probe or remove
    result,                 \* result[d]: value returned by d's last probe
    stage,                  \* stage[d]: the step at which d's last probe failed
    written,                \* first character of the last completed write, -1 if none
    last,                   \* the last call of the user-space interface and what it returned
    inflight,               \* inflight[w]: the payload of a write that has set the lines
                            \* and not yet recorded its digit, <<>> if none
    earlier                 \* a digit was written during an attachment that has ended,
                            \* and none since

vars == <<dt, level, owner, data, display7_data, parent_device, display7_class,
          sysfs_display7_device, chrdevs, classReg, devReg, fileReg, pc, result,
          stage, written, last, inflight, earlier>>

kernelVars == <<chrdevs, classReg, devReg, fileReg>>
globalVars == <<display7_data, parent_device, display7_class, sysfs_display7_device>>

\* devm_kzalloc: zeroed memory.
ZeroData == [alloc |-> TRUE, devnum |-> 0, digit |-> 0, descs |-> "NULL"]
\* No memory: the state before the first probe.
FreedData == [alloc |-> FALSE, devnum |-> 0, digit |-> 0, descs |-> "NULL"]

NoCall == [op |-> "none", arg |-> -1, size |-> 0, mask |-> -1, gres |-> 0,
           sret |-> "none", ret |-> 0, buf |-> -1]

\* Payloads whose characters after the first vary: a first character
\* followed by up to MaxLen characters out of newline and '1'.
RestChars == {10, 49}
Rests == UNION {[1 .. n -> RestChars] : n \in 0 .. MaxLen}
TailPayloads == {<<c>> \o t : c \in Chars, t \in Rests}

\* First characters of writes that overlap: '1', '8' and 'z'.
ConcChars == {49, 56, 122}

\* The label of node d in the device tree.
Label(d) == IF d = 1 THEN "display7:user:1" ELSE "display7:user:2"

\* The name device_create gives the device of the class.
DISPLAY_DEVICE_NAME == "user:1"

\* The device tree of a board with one display of n segments on lines 0..n-1.
OneDisplay(n) == [d \in Devs |-> IF d = 1 THEN [i \in 1 .. n |-> i - 1] ELSE <<>>]

\* The lines before any driver has requested them: some high, some low.
PowerUp == [l \in Lines |-> (l + 1) % 2]

InitRest ==
    /\ level = PowerUp
    /\ owner = [l \in Lines |-> 0]
    /\ data = [d \in Devs |-> FreedData]
    /\ display7_data = 0
    /\ parent_device = 0
    /\ display7_class = "NULL"
    /\ sysfs_display7_device = "NULL"
    /\ chrdevs = {}
    /\ classReg = FALSE
    /\ devReg = 0
    /\ fileReg = FALSE
    /\ pc = [d \in Devs |-> "unbound"]
    /\ result = [d \in Devs |-> 0]
    /\ stage = [d \in Devs |-> "none"]
    /\ written = -1
    /\ last = NoCall
    /\ inflight = [w \in Writers |-> <<>>]
    /\ earlier = FALSE

Init ==
    /\ \E n \in PinCounts : dt = OneDisplay(n)
    /\ InitRest

\* ------------------------------------------------------- the pin array
\* gpiod_set_array_value(ndescs, desc, info, &mask): line desc[i] takes bit
\* i-1 of mask.  f is the number of lines set before the call stops: f =
\* ndescs when it succeeds, less when the controller faults on the way.
RECURSIVE SetLines(_, _, _, _)
SetLines(lv, desc, mask, i) ==
    IF i = 0 THEN lv
    ELSE [SetLines(lv, desc, mask, i - 1) EXCEPT ![desc[i]] = Bit(mask, i - 1)]

\* Variant: the whole segment code is written to the port, whatever ndescs is.
gpiod_set_array_value_port(ndescs, desc, mask, f) ==
    [l \in Lines |-> Bit(mask, l)]

gpiod_set_array_value(ndescs, desc, mask, f) ==
    SetLines(level, desc, mask, IF f < ndescs THEN f ELSE ndescs)

\* Variant: the digit is masked to four bits instead of being rejected.
display7_setled_wrap(digit, f) ==
    LET cur == display7_data
        digit_segments == segment_table[(digit % 16) + 1]
        ndescs == Len(dt[cur])
    IN  [level |-> gpiod_set_array_value(ndescs, dt[cur], digit_segments, f),
         mask |-> digit_segments,
         gres |-> IF f = ndescs THEN 0 ELSE -5,
         sret |-> "void"]

\* display7_setled(digit): the lines afterwards, the bitmask handed to the
\* pin array (-1 when none is), the result of the pin write, and what the
\* caller gets back (the function is void).
display7_setled(digit, f) ==
    IF digit > 15
    THEN [level |-> level, mask |-> -1, gres |-> 0, sret |-> "void"]
    ELSE LET cur == display7_data
             digit_segments == segment_table[digit + 1]
             ndescs == Len(dt[cur])
         IN  [level |-> gpiod_set_array_value(ndescs, dt[cur], digit_segments, f),
              mask |-> digit_segments,
              gres |-> IF f = ndescs THEN 0 ELSE -5,
              sret |-> "void"]

\* A read can be served: the attribute file exists and display7_data is not
\* NULL.
Readable ==
    /\ fileReg
    /\ display7_data # 0

\* A write can be served: moreover display7_data->descs is an acquired pin
\* array.
Usable ==
    /\ Readable
    /\ data[display7_data].descs = "ok"

\* The pin write succeeds (every line is set), or faults after f lines.
NoFault == Len(dt[display7_data])
FaultPoints == 0 .. (Len(dt[display7_data]) - 1)

\* ------------------------------------------------ user-space interface
\* Variant: the recorded digit is cleared once it has been read.
digit_show_clear ==
    /\ fileReg /\ display7_data # 0 /\ data[display7_data].descs = "ok"
    /\ last' = [NoCall EXCEPT !.op = "show", !.buf = data[display7_data].digit, !.ret = 0]
    /\ data' = [data EXCEPT ![display7_data].digit = 0]
    /\ UNCHANGED <<dt, inflight, earlier, level, owner, globalVars, kernelVars, pc, result,
                   stage, written>>

\* digit_show: *buf = display7_data->digit; return 0.
digit_show ==
    /\ Readable
    /\ last' = [NoCall EXCEPT !.op = "show", !.buf = data[display7_data].digit, !.ret = 0]
    /\ UNCHANGED <<dt, inflight, earlier, level, owner, data, globalVars, kernelVars, pc, result, stage, written>>

\* Variant: the switch and the record use the last character of the payload.
digit_store_lastchar(buf, f) ==
    /\ Usable
    /\ LET digit == buf[Len(buf)]
           s == display7_setled(StoreDigit(digit), f)
       IN  /\ level' = s.level
           /\ data' = [data EXCEPT ![display7_data].digit = StoreChar(digit)]
           /\ written' = buf[1]
           /\ last' = [op |-> "store", arg |-> StoreDigit(digit), size |-> Len(buf),
                       mask |-> s.mask, gres |-> s.gres, sret |-> s.sret,
                       ret |-> Len(buf), buf |-> -1]
    /\ earlier' = FALSE
    /\ UNCHANGED <<dt, inflight, owner, globalVars, kernelVars, pc, result, stage>>

\* digit_store(buf, size): the switch on *buf, display7_setled, the record
\* of the digit, return size.
digit_store(buf, f) ==
    /\ Usable
    /\ LET digit == buf[1]
           s == display7_setled(StoreDigit(digit), f)
       IN  /\ level' = s.level
           /\ data' = [data EXCEPT ![display7_data].digit = StoreChar(digit)]
           /\ written' = digit
           /\ last' = [op |-> "store", arg |-> StoreDigit(digit), size |-> Len(buf),
                       mask |-> s.mask, gres |-> s.gres, sret |-> s.sret,
                       ret |-> Len(buf), buf |-> -1]
    /\ earlier' = FALSE
    /\ UNCHANGED <<dt, inflight, owner, globalVars, kernelVars, pc, result, stage>>

\* digit_store of writer w up to the return of display7_setled: the lines
\* are set, the digit is not yet recorded.  Nothing in the file keeps a
\* second writer out meanwhile.
StoreApply(w, buf) ==
    /\ Usable
    /\ inflight[w] = <<>>
    /\ level' = display7_setled(StoreDigit(buf[1]), NoFault).level
    /\ inflight' = [inflight EXCEPT ![w] = buf]
    /\ UNCHANGED <<dt, earlier, owner, data, globalVars, kernelVars, pc, result, stage,
                   written, last>>

\* digit_store of writer w from line 166 on: the record of the digit and
\* return size.
StoreRecord(w) ==
    /\ inflight[w] # <<>>
    /\ LET buf == inflight[w]
           digit == buf[1]
       IN  /\ data' = [data EXCEPT ![display7_data].digit = StoreChar(digit)]
           /\ written' = digit
           /\ last' = [op |-> "store", arg |-> StoreDigit(digit), size |-> Len(buf),
                       mask |-> segment_table[StoreDigit(digit) + 1], gres |-> 0,
                       sret |-> "void", ret |-> Len(buf), buf |-> -1]
    /\ inflight' = [inflight EXCEPT ![w] = <<>>]
    /\ earlier' = FALSE
    /\ UNCHANGED <<dt, level, owner, globalVars, kernelVars, pc, result, stage>>

\* A caller inside the module that shows a digit value directly.
setled_direct(digit, f) ==
    /\ Usable
    /\ LET s == display7_setled(digit, f)
       IN  /\ level' = s.level
           /\ last' = [op |-> "setled", arg |-> digit, size |-> 0,
                       mask |-> s.mask, gres |-> s.gres, sret |-> s.sret,
                       ret |-> 0, buf |-> -1]
    /\ UNCHANGED <<dt, inflight, earlier, owner, data, globalVars, kernelVars, pc, result, stage, written>>

Show == digit_show
Store == Usable /\ \E buf \in Payloads : digit_store(buf, NoFault)
StoreFault == Usable /\ \E c \in Chars : \E f \in FaultPoints : digit_store(<<c>>, f)
StoreTail == Usable /\ \E buf \in TailPayloads : digit_store(buf, NoFault)
StoreConc == \E w \in Writers :
    \/ Usable /\ \E c \in ConcChars : StoreApply(w, <<c>>)
    \/ StoreRecord(w)
StoreFew == Usable /\ \E c \in ConcChars : digit_store(<<c>>, NoFault)
SetledDirect == Usable /\ \E digit \in 0 .. MaxDigit : setled_direct(digit, NoFault)

\* ------------------------------------------------------------ lifecycle
\* devres releases the memory of d's probe; what it held stays there until
\* the memory is used again.
Free(d) == [data EXCEPT ![d].alloc = FALSE]

\* The lines of node d.
PinsOf(d) == {dt[d][i] : i \in 1 .. Len(dt[d])}

\* The smallest device number that is not registered.
FreshDevnum == CHOOSE n \in 1 .. Cardinality(Devs) :
                   n \notin chrdevs /\ \A m \in 1 .. (n - 1) : m \in chrdevs

\* probe returns err at step st: the driver core releases the devm memory.
Quiet(d) == \A e \in Devs \ {d} : pc[e] \in {"unbound", "bound", "oops"}

ProbeReturn(d, err, st) ==
    /\ pc' = [pc EXCEPT ![d] = "unbound"]
    /\ result' = [result EXCEPT ![d] = err]
    /\ stage' = [stage EXCEPT ![d] = st]

\* Variant: the memory is allocated without being zeroed.
ProbeAlloc_kmalloc(d) ==
    /\ pc[d] = "unbound"
    /\ Quiet(d)
    /\ dt[d] # <<>>
    /\ parent_device' = d
    /\ display7_data' = d
    /\ data' = [data EXCEPT ![d].alloc = TRUE, ![d].descs = "NULL"]
    /\ pc' = [pc EXCEPT ![d] = "p_gpios"]
    /\ result' = [result EXCEPT ![d] = 0]
    /\ stage' = [stage EXCEPT ![d] = "none"]
    /\ UNCHANGED <<dt, inflight, earlier, level, owner, display7_class, sysfs_display7_device,
                   kernelVars, written, last>>

\* display7_probe, the allocation of display7_data.
ProbeAlloc(d) ==
    /\ pc[d] = "unbound"
    /\ Quiet(d)
    /\ dt[d] # <<>>
    /\ parent_device' = d
    /\ \/ /\ display7_data' = d
          /\ data' = [data EXCEPT ![d] = ZeroData]
          /\ pc' = [pc EXCEPT ![d] = "p_gpios"]
          /\ result' = [result EXCEPT ![d] = 0]
          /\ stage' = [stage EXCEPT ![d] = "none"]
       \/ /\ display7_data' = 0
          /\ data' = data
          /\ ProbeReturn(d, -ENOMEM, "kzalloc")
    /\ UNCHANGED <<dt, inflight, earlier, level, owner, display7_class, sysfs_display7_device,
                   kernelVars, written, last>>

\* Variant: no return after a failed gpiod_get_array.
ProbeGpios_noreturn(d) ==
    /\ pc[d] = "p_gpios"
    /\ \/ /\ \A l \in {dt[d][i] : i \in 1 .. Len(dt[d])} : owner[l] = 0
          /\ owner' = [l \in Lines |-> IF l \in {dt[d][i] : i \in 1 .. Len(dt[d])} THEN d ELSE owner[l]]
          /\ level' = [l \in Lines |-> IF l \in {dt[d][i] : i \in 1 .. Len(dt[d])} THEN 0 ELSE level[l]]
          /\ data' = [data EXCEPT ![d].descs = "ok"]
          /\ stage' = stage
       \/ /\ UNCHANGED <<owner, level>>
          /\ data' = [data EXCEPT ![d].descs = "ERR"]
          /\ stage' = [stage EXCEPT ![d] = "gpios"]
    /\ pc' = [pc EXCEPT ![d] = "p_chrdev"]
    /\ UNCHANGED <<dt, inflight, earlier, globalVars, kernelVars, result, written, last>>

\* display7_probe, gpiod_get_array(child_device, "disp1", GPIOD_OUT_LOW):
\* every line of the node is requested as an output at level low, or none
\* (a line already requested makes the call fail, and it may fail anyway).
\* child_device is container_of(&child, ...), the address of a local
\* variable: its of_node field is child itself, so the gpios of the child
\* node are looked up, but every other field read through it is stack
\* memory.  Besides success and failure the call can therefore fault in the
\* kernel, and probe then never returns ("oops").
ProbeGpios(d) ==
    /\ pc[d] = "p_gpios"
    /\ \/ /\ \A l \in PinsOf(d) : owner[l] = 0
          /\ owner' = [l \in Lines |-> IF l \in PinsOf(d) THEN d ELSE owner[l]]
          /\ level' = [l \in Lines |-> IF l \in PinsOf(d) THEN 0 ELSE level[l]]
          /\ data' = [data EXCEPT ![d].descs = "ok"]
          /\ pc' = [pc EXCEPT ![d] = "p_chrdev"]
          /\ UNCHANGED <<result, stage>>
       \/ /\ UNCHANGED <<owner, level>>
          /\ data' = [Free(d) EXCEPT ![d].descs = "ERR"]
          /\ ProbeReturn(d, -16, "gpios")
       \/ /\ UNCHANGED <<owner, level, data, result, stage>>
          /\ pc' = [pc EXCEPT ![d] = "oops"]
    /\ UNCHANGED <<dt, inflight, earlier, globalVars, kernelVars, written, last>>

\* The name under which the device carrying "digit" is registered.
DeviceName == IF devReg # 0 THEN DISPLAY_DEVICE_NAME ELSE ""

\* display7_probe, alloc_chrdev_region.
ProbeChrdev(d) ==
    /\ pc[d] = "p_chrdev"
    /\ \/ /\ data' = [data EXCEPT ![d].devnum = FreshDevnum]
          /\ chrdevs' = chrdevs \cup {FreshDevnum}
          /\ pc' = [pc EXCEPT ![d] = "p_class"]
          /\ UNCHANGED <<result, stage>>
       \/ /\ data' = Free(d)
          /\ chrdevs' = chrdevs
          /\ ProbeReturn(d, -16, "chrdev")
    /\ UNCHANGED <<dt, inflight, earlier, level, owner, globalVars, classReg, devReg, fileReg, written, last>>

\* display7_probe, class_create: fails when the class exists already, or
\* for want of memory.
ProbeClass(d) ==
    /\ pc[d] = "p_class"
    /\ \/ /\ ~classReg
          /\ classReg' = TRUE
          /\ display7_class' = "ok"
          /\ pc' = [pc EXCEPT ![d] = "p_device"]
          /\ UNCHANGED <<result, stage>>
       \/ /\ classReg' = classReg
          /\ display7_class' = "ERR"
          /\ pc' = [pc EXCEPT ![d] = "u_chrdev"]
          /\ result' = [result EXCEPT ![d] = -ENOMEM]
          /\ stage' = [stage EXCEPT ![d] = "class"]
    /\ UNCHANGED <<dt, inflight, earlier, level, owner, data, display7_data, parent_device,
                   sysfs_display7_device, chrdevs, devReg, fileReg, written, last>>

\* display7_probe, device_create of "user:1".
ProbeDevice(d) ==
    /\ pc[d] = "p_device"
    /\ \/ /\ devReg = 0
          /\ devReg' = data[d].devnum
          /\ sysfs_display7_device' = "ok"
          /\ pc' = [pc EXCEPT ![d] = "p_file"]
          /\ UNCHANGED <<result, stage>>
       \/ /\ devReg' = devReg
          /\ sysfs_display7_device' = "ERR"
          /\ pc' = [pc EXCEPT ![d] = "u_class"]
          /\ result' = [result EXCEPT ![d] = -ENOMEM]
          /\ stage' = [stage EXCEPT ![d] = "device"]
    /\ UNCHANGED <<dt, inflight, earlier, level, owner, data, display7_data, parent_device,
                   display7_class, chrdevs, classReg, fileReg, written, last>>

\* display7_probe, device_create_file of "digit", and the return on success.
ProbeFile(d) ==
    /\ pc[d] = "p_file"
    /\ \/ /\ fileReg' = TRUE
          /\ pc' = [pc EXCEPT ![d] = "bound"]
          /\ UNCHANGED <<result, stage>>
       \/ /\ fileReg' = fileReg
          /\ pc' = [pc EXCEPT ![d] = "u_device"]
          /\ result' = [result EXCEPT ![d] = -ENOMEM]
          /\ stage' = [stage EXCEPT ![d] = "file"]
    /\ UNCHANGED <<dt, inflight, earlier, level, owner, data, globalVars, chrdevs, classReg, devReg,
                   written, last>>

\* ret_err_create_device_subfile: device_destroy.
UnwindDevice(d) ==
    /\ pc[d] = "u_device"
    /\ devReg' = IF devReg = data[display7_data].devnum THEN 0 ELSE devReg
    /\ pc' = [pc EXCEPT ![d] = "u_class"]
    /\ UNCHANGED <<dt, inflight, earlier, level, owner, data, globalVars, chrdevs, classReg, fileReg,
                   result, stage, written, last>>

\* ret_err_create_device: class_destroy.
UnwindClass(d) ==
    /\ pc[d] = "u_class"
    /\ classReg' = IF display7_class = "ok" THEN FALSE ELSE classReg
    /\ pc' = [pc EXCEPT ![d] = "u_chrdev"]
    /\ UNCHANGED <<dt, inflight, earlier, level, owner, data, globalVars, chrdevs, devReg, fileReg,
                   result, stage, written, last>>

\* ret_err_class_create: unregister_chrdev_region, and return result.
UnwindChrdev(d) ==
    /\ pc[d] = "u_chrdev"
    /\ chrdevs' = chrdevs \ {data[display7_data].devnum}
    /\ data' = Free(d)
    /\ pc' = [pc EXCEPT ![d] = "unbound"]
    /\ UNCHANGED <<dt, inflight, earlier, level, owner, globalVars, classReg, devReg, fileReg,
                   result, stage, written, last>>

\* Variant: the pin array is released first.
RemoveFile_putfirst(d) ==
    /\ pc[d] = "bound"
    /\ Quiet(d)
    /\ \A w \in Writers : inflight[w] = <<>>
    /\ fileReg' = FALSE
    /\ owner' = [l \in Lines |-> IF owner[l] = display7_data THEN 0 ELSE owner[l]]
    /\ pc' = [pc EXCEPT ![d] = "r_device"]
    /\ written' = -1
    /\ earlier' = (earlier \/ written # -1)
    /\ last' = NoCall
    /\ UNCHANGED <<dt, inflight, level, data, globalVars, chrdevs, classReg, devReg,
                   result, stage>>

\* display7_remove, device_remove_file: no show or store runs afterwards.
RemoveFile(d) ==
    /\ pc[d] = "bound"
    /\ Quiet(d)
    /\ \A w \in Writers : inflight[w] = <<>>
    /\ fileReg' = FALSE
    /\ pc' = [pc EXCEPT ![d] = "r_device"]
    /\ written' = -1
    /\ earlier' = (earlier \/ written # -1)
    /\ last' = NoCall
    /\ UNCHANGED <<dt, inflight, level, owner, data, globalVars, chrdevs, classReg, devReg,
                   result, stage>>

\* display7_remove, device_destroy.
RemoveDevice(d) ==
    /\ pc[d] = "r_device"
    /\ display7_data # 0 /\ display7_class = "ok"
    /\ devReg' = IF devReg = data[display7_data].devnum THEN 0 ELSE devReg
    /\ pc' = [pc EXCEPT ![d] = "r_class"]
    /\ UNCHANGED <<dt, inflight, earlier, level, owner, data, globalVars, chrdevs, classReg, fileReg,
                   result, stage, written, last>>

\* display7_remove, class_destroy.
RemoveClass(d) ==
    /\ pc[d] = "r_class"
    /\ classReg' = IF display7_class = "ok" THEN FALSE ELSE classReg
    /\ pc' = [pc EXCEPT ![d] = "r_chrdev"]
    /\ UNCHANGED <<dt, inflight, earlier, level, owner, data, globalVars, chrdevs, devReg, fileReg,
                   result, stage, written, last>>

\* Variant: remove without unregister_chrdev_region.
RemoveChrdev_keep(d) ==
    /\ pc[d] = "r_chrdev"
    /\ display7_data # 0
    /\ pc' = [pc EXCEPT ![d] = "r_gpios"]
    /\ UNCHANGED <<dt, inflight, earlier, level, owner, data, globalVars, kernelVars,
                   result, stage, written, last>>

\* display7_remove, unregister_chrdev_region.
RemoveChrdev(d) ==
    /\ pc[d] = "r_chrdev"
    /\ display7_data # 0
    /\ chrdevs' = chrdevs \ {data[display7_data].devnum}
    /\ pc' = [pc EXCEPT ![d] = "r_gpios"]
    /\ UNCHANGED <<dt, inflight, earlier, level, owner, data, globalVars, classReg, devReg, fileReg,
                   result, stage, written, last>>

\* display7_remove, gpiod_put_array and return 0; the driver core then
\* releases the devm memory.
RemoveGpios(d) ==
    /\ pc[d] = "r_gpios"
    /\ display7_data # 0 /\ data[display7_data].descs = "ok"
    /\ owner' = [l \in Lines |->
                    IF l \in PinsOf(display7_data) /\ owner[l] = display7_data
                    THEN 0 ELSE owner[l]]
    /\ data' = Free(d)
    /\ pc' = [pc EXCEPT ![d] = "unbound"]
    /\ UNCHANGED <<dt, inflight, earlier, level, globalVars, kernelVars, result, stage, written, last>>

\* display7_remove of device d while display7_data is NULL or points to the
\* freed data of the other device: besides going on with what that memory
\* holds, remove can fault in the kernel and never return.
RemoveFault(d) ==
    /\ pc[d] \in {"r_device", "r_class", "r_chrdev", "r_gpios"}
    /\ display7_data # d
    /\ pc' = [pc EXCEPT ![d] = "oops"]
    /\ UNCHANGED <<dt, inflight, earlier, level, owner, data, globalVars, kernelVars,
                   result, stage, written, last>>

\* digit_show or digit_store while display7_data is NULL, points to freed
\* data, or has no pin array: the call can fault and its caller gets
\* nothing back.
CallFault ==
    /\ fileReg
    /\ IF display7_data = 0 THEN TRUE
       ELSE ~data[display7_data].alloc \/ data[display7_data].descs # "ok"
    /\ last' = [NoCall EXCEPT !.op = "oops"]
    /\ UNCHANGED <<dt, inflight, earlier, level, owner, data, globalVars, kernelVars, pc,
                   result, stage, written>>

Fault == CallFault \/ \E d \in Devs : RemoveFault(d)
Probe == \E d \in Devs :
    \/ ProbeAlloc(d) \/ ProbeGpios(d) \/ ProbeChrdev(d) \/ ProbeClass(d)
    \/ ProbeDevice(d) \/ ProbeFile(d)
Unwind == \E d \in Devs : UnwindDevice(d) \/ UnwindClass(d) \/ UnwindChrdev(d)
Remove == \E d \in Devs :
    \/ RemoveFile(d) \/ RemoveDevice(d) \/ RemoveClass(d) \/ RemoveChrdev(d)
    \/ RemoveGpios(d)

Next == Probe \/ Unwind \/ Remove \/ Show \/ Store
Spec == Init /\ [][Next]_vars

\* The same with a direct caller of display7_setled, on the display of the
\* documented configuration (eight gpios).
InitDirect ==
    /\ dt = OneDisplay(Segments)
    /\ InitRest
NextDirect == Next \/ SetledDirect
SpecDirect == InitDirect /\ [][NextDirect]_vars

\* The same on lines whose controller can fail a write.
InitFault ==
    /\ \E n \in FaultPinCounts : dt = OneDisplay(n)
    /\ InitRest
NextFault == Next \/ StoreFault
SpecFault == InitFault /\ [][NextFault]_vars

\* A board with two displays of two gpios each, the second display on
\* lines of its own or sharing a line with the first.
InitTwo ==
    /\ dt \in {<<<<0, 1>>, <<2, 3>>>>, <<<<0, 1>>, <<1, 2>>>>}
    /\ InitRest
NextTwo == Probe \/ Unwind \/ Remove \/ Show \/ StoreFew \/ Fault
SpecTwo == InitTwo /\ [][NextTwo]_vars

\* Two writers whose calls of digit_store overlap, on the 8-gpio display.
NextConc == Probe \/ Unwind \/ Remove \/ Show \/ StoreConc
SpecConc == InitDirect /\ [][NextConc]_vars

\* Writes of payloads with varying characters after the first.
NextTail == Next \/ StoreTail
SpecTail == InitFault /\ [][NextTail]_vars

\* ------------------------------------------------------------- properties
Hex(h, l) == 16 * h + l

\* Bit i of a segment code, by comparison.
SegmentLit(mask, i) == IF (mask % Pow2(i + 1)) >= Pow2(i) THEN 1 ELSE 0

\* The last call went through display7_setled.
Shown == last.op \in {"store", "setled"}

\* Nothing of the user-space interface is registered.
NothingRegistered == chrdevs = {} /\ ~classReg /\ devReg = 0 /\ ~fileReg

\* C1: for every digit 0..15 the bitmask display7_setled hands to the pin
\* array is the constant of the table 0x3F, 0x06, ... 0x71 at that index, and
\* for a digit above 15 no bitmask is handed over.
C1_Table == <<Hex(3, 15), Hex(0, 6), Hex(5, 11), Hex(4, 15), Hex(6, 6), Hex(6, 13),
              Hex(7, 13), Hex(0, 7), Hex(7, 15), Hex(6, 15), Hex(7, 7), Hex(7, 12),
              Hex(3, 9), Hex(5, 14), Hex(7, 9), Hex(7, 1)>>
C1_SegmentTable ==
    Shown => IF last.arg \in 0 .. 15
             THEN last.mask = C1_Table[last.arg + 1]
             ELSE last.mask = -1
C1_Witness == last.op = "setled" /\ last.arg = 15 /\ last.mask = Hex(7, 1)

\* C2: a write that shows digit d on a node of n gpios without a fault leaves
\* the line at position i at bit i of the segment code of d for every i < n,
\* reports no error when n < 8, and changes no line outside the n gpios.
C2_ShowDrivesPins ==
    [][Store =>
        LET cur == display7_data
            n == Len(dt[cur])
            code == segment_table[last'.arg + 1]
        IN  /\ last'.arg \in 0 .. 15
            /\ \A i \in 0 .. (n - 1) : level'[dt[cur][i + 1]] = SegmentLit(code, i)
            /\ n < 8 => (last'.gres = 0 /\ last'.ret = last'.size)
            /\ \A l \in Lines \ PinsOf(cur) : level'[l] = level[l]]_vars
C2_Witness ==
    /\ Len(dt[1]) = 3
    /\ last.op = "store" /\ last.arg = 11 /\ last.gres = 0
    /\ level[0] = 0 /\ level[1] = 0 /\ level[2] = 1
    /\ level[3] = 0 /\ level[4] = 1

\* C3: after a write whose first character c is one of 0-9, a-f, a read with
\* no write in between puts c itself into the buffer.
C3_RoundTrip ==
    (last.op = "show" /\ written \in HexChars) => last.buf = written
C3_Witness == last.op = "show" /\ written = 102 /\ last.buf = 102

\* C4: a write whose first character is none of 0-9, a-f returns the payload
\* length, hands the bitmask 0x7F to the pin array and records '8', which the
\* next read returns.
C4_Fallback ==
    /\ (last.op = "store" /\ written \notin HexChars) =>
            /\ last.ret = last.size
            /\ last.mask = Hex(7, 15)
            /\ data[display7_data].digit = 56
    /\ (last.op = "show" /\ written # -1 /\ written \notin HexChars) => last.buf = 56
C4_Witness == last.op = "show" /\ written = 65 /\ last.buf = 56

\* C5: when the pin write fails while a digit is being shown, the recorded
\* digit is not updated.
C5_RecordOnlyOnSuccess ==
    [][StoreFault => data'[display7_data].digit = data[display7_data].digit]_vars

\* C6: showing a digit value above 15 directly changes no line and leaves the
\* recorded digit as it was, and the read that follows returns that digit.
C6_OutOfRange ==
    [][/\ (SetledDirect /\ last'.arg > 15) => (level' = level /\ data' = data)
       /\ digit_show => last'.buf = data[display7_data].digit]_vars
C6_Witness ==
    /\ last.op = "setled" /\ last.arg = 16 /\ last.mask = -1
    /\ data[1].digit = 53
    /\ \A i \in 0 .. 7 : level[i] = SegmentLit(Hex(6, 13), i)

\* C7: whenever showing a digit fails, because the digit is above 15 or
\* because the pin write faults, the caller of display7_setled gets an error
\* back.
C7_ShowFailed == Shown /\ (last.arg > 15 \/ last.gres < 0)
C7_ErrorPropagated == C7_ShowFailed => last.sret = "error"

\* C8: when probe has failed at a step after the pins were acquired, every
\* resource of that probe, the pin array included, has been released.
C8_AttachRollback ==
    \A d \in Devs :
        (pc[d] = "unbound" /\ stage[d] \in {"chrdev", "class", "device", "file"}) =>
            /\ \A l \in Lines : owner[l] # d
            /\ NothingRegistered

\* C9: when the pin array cannot be acquired, probe returns an error, the
\* failed acquisition has claimed no line, and no device number, class, device
\* or attribute file is registered.
C9_AcquireAllOrNothing ==
    [][\A d \in Devs :
        /\ (pc[d] = "p_gpios" /\ stage'[d] = "gpios") => owner' = owner
        /\ stage'[d] = "gpios" =>
              /\ pc'[d] = "unbound"
              /\ result'[d] < 0
              /\ chrdevs' = {} /\ ~classReg' /\ devReg' = 0 /\ ~fileReg']_vars
C9_Witness ==
    /\ pc[1] = "unbound" /\ stage[1] = "gpios" /\ result[1] < 0
    /\ \A l \in Lines : owner[l] = 0
    /\ NothingRegistered

\* C10: in remove the attribute file, the device and the class are
\* unregistered before the pin array is released: in no state is any of them
\* registered while a line of the display is free.
C10_DetachOrder ==
    (fileReg \/ devReg # 0 \/ classReg) =>
        \A l \in PinsOf(display7_data) : owner[l] = display7_data
C10_Witness ==
    /\ pc[1] = "r_gpios"
    /\ NothingRegistered
    /\ \A l \in PinsOf(1) : owner[l] = 1

\* C13: after a successful probe and before the first write, also when the
\* probe follows writes and a remove, every gpio of the node is low and a read
\* puts NUL into the buffer.
C13_FreshAttach ==
    \A d \in Devs :
        (pc[d] = "bound" /\ written = -1) =>
            /\ \A l \in PinsOf(d) : level[l] = 0
            /\ data[d].digit = 0
            /\ last.op = "show" => last.buf = 0
C13_Witness ==
    /\ pc[1] = "bound" /\ earlier /\ written = -1
    /\ last.op = "show" /\ last.buf = 0
    /\ \A l \in PinsOf(1) : level[l] = 0

\* C15: every read hands its caller exactly one character: digit_show
\* returns the byte count 1 and the character is the recorded digit.
C15_OneCharacter ==
    last.op = "show" => (last.ret = 1 /\ last.buf = data[display7_data].digit)

\* C16: a read does not fail and changes nothing: digit_show leaves every
\* line, the recorded digit and the pin array as they are, and hands no
\* bitmask to the pin array.
C16_ReadOnly ==
    [][digit_show =>
        /\ level' = level /\ data' = data /\ owner' = owner
        /\ last'.ret >= 0
        /\ last'.mask = -1]_vars
C16_Witness ==
    /\ last.op = "show" /\ last.buf = 55 /\ data[1].digit = 55
    /\ Len(dt[1]) = 8
    /\ \A i \in 0 .. 7 : level[i] = SegmentLit(Hex(0, 7), i)

\* C17: after a successful probe of a node with label L the device that
\* carries the attribute "digit" is registered under the name L.
C17_EndpointNamedByLabel ==
    \A d \in Devs : pc[d] = "bound" => DeviceName = Label(d)

\* The digit value of a recorded character: '0'..'9' and 'a'..'f'.
C19_Value(c) == IF c \in 48 .. 57 THEN c - 48 ELSE c - 87

\* C19: with writes one at a time and without faults, once a write has
\* completed on the attached display the recorded character is a hexadecimal
\* digit and the line at position i is at bit i of the table entry of its
\* value.
C19_DisplayMatchesRecord ==
    \A d \in Devs :
        (pc[d] = "bound" /\ written # -1) =>
            /\ data[d].digit \in HexChars
            /\ \A i \in 0 .. (Len(dt[d]) - 1) :
                  level[dt[d][i + 1]] = SegmentLit(C1_Table[C19_Value(data[d].digit) + 1], i)
C19_Witness ==
    /\ pc[1] = "bound" /\ written = 122 /\ data[1].digit = 56
    /\ last.op = "show" /\ last.buf = 56
    /\ Len(dt[1]) = 8
    /\ \A i \in 0 .. 7 : level[i] = SegmentLit(Hex(7, 15), i)

\* C20: remove releases what probe acquired, each once and in the reverse
\* order: every step of remove finds its resource held, leaves it released,
\* finds released what probe acquired after it and leaves held what probe
\* acquired before it; when remove returns nothing is registered and no line
\* belongs to the display.
C20_Held(d, files, devices, classes, regions, pins) ==
    /\ fileReg = files
    /\ (devReg # 0) = devices
    /\ classReg = classes
    /\ (chrdevs # {}) = regions
    /\ \A l \in PinsOf(d) : owner[l] = (IF pins THEN d ELSE 0)
C20_Step(d, from, to) == pc[d] = from /\ pc'[d] = to
C20_ResourceBalance ==
    [][\A d \in Devs :
        /\ C20_Step(d, "bound", "r_device") =>
              /\ C20_Held(d, TRUE, TRUE, TRUE, TRUE, TRUE)
              /\ C20_Held(d, FALSE, TRUE, TRUE, TRUE, TRUE)'
        /\ C20_Step(d, "r_device", "r_class") =>
              /\ C20_Held(d, FALSE, TRUE, TRUE, TRUE, TRUE)
              /\ C20_Held(d, FALSE, FALSE, TRUE, TRUE, TRUE)'
        /\ C20_Step(d, "r_class", "r_chrdev") =>
              /\ C20_Held(d, FALSE, FALSE, TRUE, TRUE, TRUE)
              /\ C20_Held(d, FALSE, FALSE, FALSE, TRUE, TRUE)'
        /\ C20_Step(d, "r_chrdev", "r_gpios") =>
              /\ C20_Held(d, FALSE, FALSE, FALSE, TRUE, TRUE)
              /\ C20_Held(d, FALSE, FALSE, FALSE, FALSE, TRUE)'
        /\ C20_Step(d, "r_gpios", "unbound") =>
              /\ C20_Held(d, FALSE, FALSE, FALSE, FALSE, TRUE)
              /\ C20_Held(d, FALSE, FALSE, FALSE, FALSE, FALSE)'
              /\ \A l \in Lines : owner'[l] = 0]_vars
C20_Witness ==
    /\ pc[1] = "unbound" /\ stage[1] = "none" /\ earlier
    /\ data[1].descs = "ok" /\ ~data[1].alloc
    /\ NothingRegistered
    /\ \A l \in Lines : owner[l] = 0

\* The digit value the switch of digit_store selects for a first character.
C14_Value(c) == IF c \in 48 .. 57 THEN c - 48 ELSE IF c \in 97 .. 102 THEN c - 87 ELSE 8

\* C14: a fault-free write of a payload of n >= 1 characters shows and
\* records what its first character alone determines, whatever characters
\* 2..n are, and returns n.
C14_FirstCharOnly ==
    [][\A buf \in TailPayloads :
        digit_store(buf, NoFault) =>
            LET cur == display7_data
                code == C1_Table[C14_Value(buf[1]) + 1]
            IN  /\ \A i \in 0 .. (Len(dt[cur]) - 1) :
                      level'[dt[cur][i + 1]] = SegmentLit(code, i)
                /\ \A l \in Lines \ PinsOf(cur) : level'[l] = level[l]
                /\ data'[cur].digit = (IF buf[1] \in HexChars THEN buf[1] ELSE 56)
                /\ last'.ret = Len(buf)]_vars
C14_Witness ==
    /\ last.op = "store" /\ last.size = MaxLen + 1 /\ last.ret = MaxLen + 1
    /\ written = 122 /\ data[1].digit = 56 /\ last.arg = 8

\* C18: when no write is in flight any more and a write has completed on
\* the attached display, the line at position i is at bit i of the segment
\* code of the recorded digit, however the steps of two overlapping writes
\* were interleaved.
C18_ConcurrentWrites ==
    \A d \in Devs :
        (pc[d] = "bound" /\ written # -1 /\ \A w \in Writers : inflight[w] = <<>>) =>
            \A i \in 0 .. (Len(dt[d]) - 1) :
                level[dt[d][i + 1]] = SegmentLit(C1_Table[C14_Value(data[d].digit) + 1], i)

\* C11: a write through the endpoint of an attached display changes neither
\* the recorded digit nor the lines of the other display, and a read through
\* that endpoint gets the character last written through it.
C11_InstanceIndependence ==
    [][\A d \in Devs : \A e \in Devs \ {d} :
        pc[d] = "bound" =>
            /\ StoreFew =>
                  /\ data'[e].digit = data[e].digit
                  /\ \A l \in PinsOf(e) \ PinsOf(d) : level'[l] = level[l]
            /\ (digit_show /\ written # -1) =>
                  last'.buf = (IF written \in HexChars THEN written ELSE 56)]_vars

\* C12: on a board where two displays share a gpio no line is ever claimed
\* by either display.
C12_PinExclusivity ==
    (PinsOf(1) \cap PinsOf(2) # {}) => \A l \in Lines : owner[l] = 0

====
